---- MODULE Spec2Model ----
(***************************************************************************)
(* Model of the node-freefare binding: the JavaScript wrapper (Freefare,   *)
(* Device, Tag classes), the native Device and Tag objects and the Nan     *)
(* AsyncWorkers they queue on the libuv thread pool.                       *)
(*                                                                         *)
(* A worker goes through the phases                                        *)
(*   queued    - AsyncQueueWorker put it on the thread pool's work queue   *)
(*   executing - a pool thread runs Execute(), the native call is in flight*)
(*   returned  - Execute() is over, the completion waits for the main loop *)
(*   delivered - HandleOKCallback() ran on the main loop and called the    *)
(*               JavaScript callback, which settled the promise            *)
(***************************************************************************)
EXTENDS Integers, Sequences, FiniteSets, TLC

VARIABLES
    ctx,        \* libnfc_context: "uninit", "failed" (init reported a failure) or "ok"
    session,    \* TRUE once a Freefare object has been constructed
    obtained,   \* Device objects handed out by listDevices()
    device,     \* Device::device of each Device (0 = NULL, < 0 = indeterminate, > 0 = handle)
    ops,        \* every AsyncWorker created so far, in submission order
    wq,         \* work queue of the thread pool (worker indices)
    doneq,      \* completions waiting for the main loop (worker indices)
    handlers,   \* devices for which listTags() produced a card handler
    closeRes,   \* outcome of Device.close() on each device
    closedAt,   \* number of workers submitted when close() was last called (-1: never)
    staleRead,  \* devices whose handler was read (getType...) after close() returned
    crashed,    \* TRUE once the process was terminated by a fault
    tags,       \* ListTagsWorker::tags, the array freefare_get_tags returned
    results,    \* native Tag objects ListTagsWorker hands to the callback
    res,        \* handler objects Device.listTags() resolves with
    listPc,     \* position of that listTags completion
    call,       \* last call of a card handler method or helper, with its outcome
    card        \* MIFARE Classic card in the field: sector session, value blocks, register

\* State of the Freefare and Device objects and of the thread pool.
deviceVars == <<ctx, session, obtained, device, ops, wq, doneq,
                handlers, closeRes, closedAt, staleRead, crashed>>

\* State of one listTags completion and of one card handler call.
cardVars == <<tags, results, res, listPc, call, card>>

vars == <<ctx, session, obtained, device, ops, wq, doneq,
          handlers, closeRes, closedAt, staleRead, crashed,
          tags, results, res, listPc, call, card>>

\* ---------------------------------------------------------------- bounds
Devices == {"d1"}

MaxOps == 3

PoolSize == 2

\* ------------------------------------------------------------- constants
NFF_ERROR_OPEN_DEVICE == 11

NFF_ERROR_INIT_LIBNFC == 10

ERROR_INIT_LIBNFC == 10

ERROR_OPEN_DEVICE == 11

NFF_ERROR_LIBNFC_UNKNOWN == 100

NFF_ERROR_LIBNFC_EIO == 101

NFF_ERROR_LIBNFC_EINVARG == 102

NFF_ERROR_LIBNFC_EDEVNOTSUPP == 103

NFF_ERROR_LIBNFC_ENOTSUCHDEV == 104

NFF_ERROR_LIBNFC_EOVFLOW == 105

NFF_ERROR_LIBNFC_ETIMEOUT == 106

NFF_ERROR_LIBNFC_EOPABORTED == 107

NFF_ERROR_LIBNFC_ENOTIMPL == 108

NFF_ERROR_LIBNFC_ETGRELEASED == 109

NFF_ERROR_LIBNFC_ERFTRANS == 110

NFF_ERROR_LIBNFC_EMFCAUTHFAIL == 111

NFF_ERROR_LIBNFC_ESOFT == 112

NFF_ERROR_LIBNFC_ECHIP == 113

\* Error values the binding defines for its callers.
NffErrors ==
    {NFF_ERROR_OPEN_DEVICE, NFF_ERROR_INIT_LIBNFC}
        \cup (NFF_ERROR_LIBNFC_UNKNOWN .. NFF_ERROR_LIBNFC_ECHIP)

\* Methods Device::Init puts on the native Device prototype.
DevicePrototype == {"open", "listTags", "getConnstring", "abort"}

\* Methods Tag::Init puts on the native Tag prototype.
TagPrototype ==
    {"getTagType", "getTagFriendlyName", "getTagUID",
     "mifareUltralight_connect", "mifareUltralight_disconnect",
     "mifareUltralight_read", "mifareUltralight_write",
     "mifareClassic_connect", "mifareClassic_disconnect",
     "mifareClassic_authenticate", "mifareClassic_read",
     "mifareClassic_initValue", "mifareClassic_readValue",
     "mifareClassic_write", "mifareClassic_increment",
     "mifareClassic_decrement", "mifareClassic_restore",
     "mifareClassic_transfer",
     "mifareDesfire_connect", "mifareDesfire_disconnect",
     "mifareDesfire_authenticate_des", "mifareDesfire_authenticate_3des",
     "mifareDesfire_getApplicationIds", "mifareDesfire_selectApplication",
     "mifareDesfire_getFileIds", "mifareDesfire_write", "mifareDesfire_read"}

\* Error values a native card or driver call hands back (0 = success).
NativeErrors == {0, -1}

\* ---------------------------------------------------------------- helpers
OpIds == 1..Len(ops)

SeqToSet(s) == {s[k] : k \in 1..Len(s)}

Executing == {i \in OpIds : ops[i].phase = "executing"}

ExecutingOn(d) == {i \in Executing : ops[i].dev = d}

\* A handle the driver returned from nfc_open; nothing ever closes one.
ValidHandle(h) == h > 0

\* ------------------------------------------------------ JavaScript promises
SettleLastWins(state, calls) ==
    IF calls = <<>> THEN state ELSE calls[Len(calls)]

\* A promise takes the first settle call and ignores the later ones.
RECURSIVE Settle(_, _)
Settle(state, calls) ==
    IF calls = <<>> THEN state
    ELSE Settle(IF state = "pending" THEN Head(calls) ELSE state, Tail(calls))

\* Calls made by the callback of Device.open(), in order.
DeviceOpenCb(error) ==
    IF error # 0
    THEN IF error = ERROR_OPEN_DEVICE
         THEN <<"LibNFC failed to open the device", "Unknown error", "resolved">>
         ELSE <<"Unknown error", "resolved">>
    ELSE <<"resolved">>

\* Calls made by the callbacks of listTags(), abort() and the card operations.
DefaultCb(error) ==
    IF error # 0 THEN <<"Unknown error", "resolved">> ELSE <<"resolved">>

JsCallback(kind, error) ==
    IF kind \in {"open", "close"} THEN DeviceOpenCb(error) ELSE DefaultCb(error)

\* ------------------------------------------------------- Freefare (session)
\* freefare.init(): results of the native call and the context it leaves.
NativeInit(c) ==
    IF c = "ok"
    THEN {[error |-> 0, ctx |-> "ok"], [error |-> 1, ctx |-> "ok"]}
    ELSE {[error |-> 0, ctx |-> "ok"],
          [error |-> NFF_ERROR_INIT_LIBNFC, ctx |-> "failed"]}

ConstructorOutcomeNoThrow(error) == "constructed"

\* Freefare constructor: throws on every error init() reports.
ConstructorOutcome(error) ==
    IF error = ERROR_INIT_LIBNFC THEN "Could not initiate LibNFC"
    ELSE IF error # 0 THEN "Unknown error during LibNFC initialization"
    ELSE "constructed"

NewFreefare ==
    /\ ~crashed
    /\ \E r \in NativeInit(ctx) :
          /\ ctx' = r.ctx
          /\ session' = (session \/ ConstructorOutcome(r.error) = "constructed")
    /\ UNCHANGED <<obtained, device, ops, wq, doneq, handlers,
                   closeRes, closedAt, staleRead, crashed>>
    /\ UNCHANGED cardVars

\* Freefare.listDevices(): wraps every native device in a Device object.
ListDevices ==
    /\ ~crashed
    /\ session
    /\ obtained' = Devices
    /\ UNCHANGED <<ctx, session, device, ops, wq, doneq,
                   handlers, closeRes, closedAt, staleRead, crashed>>
    /\ UNCHANGED cardVars

\* ------------------------------------------------------------- submission
CardKinds == {"connect", "disconnect"}

\* JavaScript name of a card operation -> native method it calls.
CardMethod(kind) ==
    IF kind = "connect" THEN "mifareUltralight_connect"
    ELSE "mifareUltralight_disconnect"

NewOp(kind, d, arg) ==
    [kind |-> kind, dev |-> d, phase |-> "queued", arg |-> arg,
     ret |-> "none", error |-> 0, promise |-> "pending", cb |-> 0,
     behind |-> FALSE]

\* Nan::AsyncQueueWorker: the worker goes to the tail of the pool's queue.
AsyncQueueWorker(op) ==
    /\ ops' = Append(ops, op)
    /\ wq' = Append(wq, Len(ops) + 1)

CanSubmit(d) ==
    /\ ~crashed
    /\ d \in obtained
    /\ Len(ops) < MaxOps

\* Device.open(): OpenWorker gets the address of Device::device.
DeviceOpen(d) ==
    /\ CanSubmit(d)
    /\ AsyncQueueWorker(NewOp("open", d, 0))
    /\ UNCHANGED <<ctx, session, obtained, device, doneq,
                   handlers, closeRes, closedAt, staleRead, crashed>>
    /\ UNCHANGED cardVars

\* Device.listTags(): ListTagsWorker gets the current value of Device::device.
DeviceListTags(d) ==
    /\ CanSubmit(d)
    /\ AsyncQueueWorker(NewOp("listTags", d, device[d]))
    /\ UNCHANGED <<ctx, session, obtained, device, doneq,
                   handlers, closeRes, closedAt, staleRead, crashed>>
    /\ UNCHANGED cardVars

DeviceAbortOnCallerThread(d) ==
    /\ CanSubmit(d)
    /\ \E e \in NativeErrors :
          ops' = Append(ops, [NewOp("abort", d, device[d])
                                 EXCEPT !.phase = "returned", !.ret = "ok",
                                        !.error = e])
    /\ doneq' = Append(doneq, Len(ops) + 1)
    /\ UNCHANGED <<ctx, session, obtained, device, wq,
                   handlers, closeRes, closedAt, staleRead, crashed>>
    /\ UNCHANGED cardVars

\* Device.abort(): AbortWorker gets the current value of Device::device.
DeviceAbort(d) ==
    /\ CanSubmit(d)
    /\ AsyncQueueWorker(NewOp("abort", d, device[d]))
    /\ UNCHANGED <<ctx, session, obtained, device, doneq,
                   handlers, closeRes, closedAt, staleRead, crashed>>
    /\ UNCHANGED cardVars

\* Device.close(): calls the native object's close method.  A method the
\* prototype lacks is undefined, the call throws and the promise rejects.
DeviceClose(d) ==
    /\ ~crashed
    /\ d \in obtained
    /\ IF "close" \in DevicePrototype
       THEN /\ Len(ops) < MaxOps
            /\ AsyncQueueWorker(NewOp("close", d, device[d]))
            /\ UNCHANGED closeRes
       ELSE /\ closeRes' = [closeRes EXCEPT ![d] = "TypeError"]
            /\ UNCHANGED <<ops, wq>>
    /\ closedAt' = [closedAt EXCEPT ![d] = Len(ops)]
    /\ UNCHANGED <<ctx, session, obtained, device, doneq,
                   handlers, staleRead, crashed>>
    /\ UNCHANGED cardVars


\* MifareUltralightTag.open() / close().
CardOp(d, kind) ==
    /\ CanSubmit(d)
    /\ d \in handlers
    /\ CardMethod(kind) \in TagPrototype
    /\ AsyncQueueWorker(NewOp(kind, d, 1))
    /\ UNCHANGED <<ctx, session, obtained, device, doneq,
                   handlers, closeRes, closedAt, staleRead, crashed>>
    /\ UNCHANGED cardVars

\* Native getters behind getType(), getFriendlyName() and getUID().
GetterOps == {"getTagType", "getTagFriendlyName", "getTagUID"}

\* Tag.getType() / getFriendlyName() / getUID(): the native getter calls
\* libfreefare on the calling thread and returns its answer.
TagDescriptorRead(d) ==
    /\ ~crashed
    /\ d \in handlers
    /\ \E g \in GetterOps :
          /\ g \in TagPrototype
          /\ call' = [op |-> g, args |-> <<d>>, env |-> <<>>, out |-> <<>>]
    /\ staleRead' = IF closeRes[d] # "none" THEN staleRead \cup {d} ELSE staleRead
    /\ UNCHANGED <<ctx, session, obtained, device, ops, wq, doneq,
                   handlers, closeRes, closedAt, crashed>>
    /\ UNCHANGED <<tags, results, res, listPc, card>>

\* -------------------------------------------------------------- thread pool
AbortWorkerExecuteCancels(q, d) == SelectSeq(q, LAMBDA j : ops[j].dev # d)

\* AbortWorker::Execute: nfc_abort_command signals the driver; the binding's
\* queue of waiting workers is left as it is.
AbortWorkerExecute(q, d) == q

\* A pool thread takes the head of the work queue and enters Execute().
WorkerStart(i) ==
    /\ ~crashed
    /\ i \in OpIds
    /\ wq # <<>>
    /\ i = Head(wq)
    /\ Cardinality(Executing) < PoolSize
    /\ LET rest == Tail(wq)
           isAbort == ops[i].kind = "abort"
       IN  /\ wq' = IF isAbort THEN AbortWorkerExecute(rest, ops[i].dev) ELSE rest
           /\ ops' = [j \in OpIds |->
                        IF j = i THEN [ops[j] EXCEPT !.phase = "executing"]
                        ELSE IF isAbort /\ j \in SeqToSet(rest)
                             THEN [ops[j] EXCEPT !.behind = TRUE]
                             ELSE ops[j]]
    /\ UNCHANGED <<ctx, session, obtained, device, doneq,
                   handlers, closeRes, closedAt, staleRead, crashed>>
    /\ UNCHANGED cardVars

\* What the native call of a worker can produce.  "fault" is the process
\* being terminated inside the call (a handle that is NULL or indeterminate).
NativeOutcomes(op) ==
    CASE op.kind = "open" ->
            {[ret |-> "NULL", error |-> 0], [ret |-> "ok", error |-> 0]}
      [] op.kind = "listTags" ->
            IF ValidHandle(op.arg)
            THEN {[ret |-> r, error |-> 0] : r \in {"NULL", "tags"}}
            ELSE {[ret |-> r, error |-> 0] : r \in {"NULL", "fault"}}
      [] op.kind = "abort" ->
            IF ValidHandle(op.arg)
            THEN {[ret |-> "ok", error |-> e] : e \in NativeErrors}
            ELSE {[ret |-> "fault", error |-> 0]}
                 \cup {[ret |-> "ok", error |-> e] : e \in NativeErrors \ {0}}
      [] op.kind = "close" -> {[ret |-> "ok", error |-> 0]}
      [] OTHER -> {[ret |-> "ok", error |-> e] : e \in NativeErrors}

WorkerReturnDisconnectCloses(i) ==
    /\ ~crashed
    /\ i \in Executing
    /\ \E o \in NativeOutcomes(ops[i]) :
          IF o.ret = "fault"
          THEN /\ crashed' = TRUE
               /\ UNCHANGED <<ops, doneq, device>>
          ELSE /\ ops' = [ops EXCEPT ![i] = [@ EXCEPT !.phase = "returned",
                                                      !.ret = o.ret,
                                                      !.error = o.error]]
               /\ doneq' = Append(doneq, i)
               /\ device' = IF ops[i].kind = "open"
                            THEN [device EXCEPT ![ops[i].dev] =
                                     IF o.ret = "ok" THEN i ELSE 0]
                            ELSE IF ops[i].kind = "disconnect"
                            THEN [device EXCEPT ![ops[i].dev] = 0]
                            ELSE device
               /\ UNCHANGED crashed
    /\ UNCHANGED <<ctx, session, obtained, wq,
                   handlers, closeRes, closedAt, staleRead>>
    /\ UNCHANGED cardVars

\* The native call returns and Execute() ends; OpenWorker stores what
\* nfc_open returned into Device::device.
WorkerReturn(i) ==
    /\ ~crashed
    /\ i \in Executing
    /\ \E o \in NativeOutcomes(ops[i]) :
          IF o.ret = "fault"
          THEN /\ crashed' = TRUE
               /\ UNCHANGED <<ops, doneq, device>>
          ELSE /\ ops' = [ops EXCEPT ![i] = [@ EXCEPT !.phase = "returned",
                                                      !.ret = o.ret,
                                                      !.error = o.error]]
               /\ doneq' = Append(doneq, i)
               /\ device' = IF ops[i].kind = "open"
                            THEN [device EXCEPT ![ops[i].dev] =
                                     IF o.ret = "ok" THEN i ELSE 0]
                            ELSE device
               /\ UNCHANGED crashed
    /\ UNCHANGED <<ctx, session, obtained, wq,
                   handlers, closeRes, closedAt, staleRead>>
    /\ UNCHANGED cardVars

\* Error argument HandleOKCallback passes to the JavaScript callback.
CallbackError(op) ==
    CASE op.kind = "open" ->
            IF device[op.dev] = 0 THEN NFF_ERROR_OPEN_DEVICE ELSE 0
      [] op.kind \in {"listTags", "close"} -> 0
      [] OTHER -> op.error

\* HandleOKCallback code whose behaviour is undefined: ListTagsWorker walks
\* tags[] without testing it for NULL, AbortWorker passes argc 2 with a
\* one-element argv.  The process is terminated or the callback is called.
CompletionOutcomes(op) ==
    IF \/ (op.kind = "listTags" /\ op.ret = "NULL")
       \/ op.kind = "abort"
    THEN {"fault", "call"}
    ELSE {"call"}

\* The main loop runs the completion of the oldest finished worker.
Deliver(i) ==
    /\ ~crashed
    /\ i \in OpIds
    /\ doneq # <<>>
    /\ i = Head(doneq)
    /\ \E c \in CompletionOutcomes(ops[i]) :
          IF c = "fault"
          THEN /\ crashed' = TRUE
               /\ UNCHANGED <<ops, doneq, handlers, closeRes>>
          ELSE /\ ops' = [ops EXCEPT ![i] =
                            [@ EXCEPT !.phase = "delivered",
                                      !.cb = @ + 1,
                                      !.promise = Settle(@, JsCallback(ops[i].kind,
                                                             CallbackError(ops[i])))]]
               /\ doneq' = Tail(doneq)
               /\ handlers' = IF ops[i].kind = "listTags" /\ ops[i].ret = "tags"
                              THEN handlers \cup {ops[i].dev} ELSE handlers
               /\ closeRes' = IF ops[i].kind = "close"
                              THEN [closeRes EXCEPT ![ops[i].dev] = "resolved"]
                              ELSE closeRes
               /\ UNCHANGED crashed
    /\ UNCHANGED <<ctx, session, obtained, device, wq, closedAt, staleRead>>
    /\ UNCHANGED cardVars

\* ------------------------------------------------------------ specification
\* No MIFARE Classic card is being followed.
NoCard == [auth |-> -1, value |-> <<>>, reg |-> -1, run |-> <<>>]

\* No listTags completion and no handler call is being followed.
CardIdle ==
    /\ card = NoCard
    /\ tags = <<>>
    /\ results = <<>>
    /\ res = <<>>
    /\ listPc = "idle"
    /\ call = [op |-> "none", args |-> <<>>, env |-> <<>>, out |-> <<>>]

Init ==
    /\ CardIdle
    /\ ctx = "uninit"
    /\ session = FALSE
    /\ obtained = {}
    /\ device = [d \in Devices |-> -1]
    /\ ops = <<>>
    /\ wq = <<>>
    /\ doneq = <<>>
    /\ handlers = {}
    /\ closeRes = [d \in Devices |-> "none"]
    /\ closedAt = [d \in Devices |-> -1]
    /\ staleRead = {}
    /\ crashed = FALSE

\* Steps of a run in which the caller never uses the Device or a handler
\* after asking for the Device to be closed.
NextOpen ==
    \/ NewFreefare
    \/ ListDevices
    \/ \E d \in Devices : DeviceOpen(d)
    \/ \E d \in Devices : DeviceListTags(d)
    \/ \E d \in Devices : DeviceAbort(d)
    \/ \E d \in Devices, k \in CardKinds : CardOp(d, k)
    \/ \E i \in 1..MaxOps : WorkerStart(i)
    \/ \E i \in 1..MaxOps : WorkerReturn(i)
    \/ \E i \in 1..MaxOps : Deliver(i)

Next ==
    \/ NewFreefare
    \/ ListDevices
    \/ \E d \in Devices : DeviceOpen(d)
    \/ \E d \in Devices : DeviceListTags(d)
    \/ \E d \in Devices : DeviceAbort(d)
    \/ \E d \in Devices : DeviceClose(d)
    \/ \E d \in Devices, k \in CardKinds : CardOp(d, k)
    \/ \E d \in Devices : TagDescriptorRead(d)
    \/ \E i \in 1..MaxOps : WorkerStart(i)
    \/ \E i \in 1..MaxOps : WorkerReturn(i)
    \/ \E i \in 1..MaxOps : Deliver(i)

Spec == Init /\ [][Next]_vars

\* close() is never called; the pool threads keep taking work, native calls
\* return, and the main loop keeps running completions.
FairSpec ==
    /\ Init /\ [][NextOpen]_vars
    /\ WF_vars(\E i \in 1..MaxOps : WorkerStart(i))
    /\ WF_vars(\E i \in 1..MaxOps : WorkerReturn(i))
    /\ WF_vars(\E i \in 1..MaxOps : Deliver(i))

\* ------------------------------------------------- listTags: card dispatch
\* Most cards one freefare_get_tags call reports.
MaxTags == 2

\* enum freefare_tag_type of the card library.
NativeTagTypes ==
    {"ULTRALIGHT", "ULTRALIGHT_C", "CLASSIC_1K", "CLASSIC_4K", "DESFIRE",
     "NTAG_21x", "FELICA"}

\* UIDs the cards in the field may report.
Uids == {"04a1", "04b2"}

\* Arrays freefare_get_tags can return: entry i is a card handle of its own
\* (h), whatever type and UID the card reports.
TagArrays ==
    UNION {{[i \in 1..n |-> [h |-> i, type |-> f[i][1], uid |-> f[i][2]]] :
                f \in [1..n -> NativeTagTypes \X Uids]} : n \in 0..MaxTags}

GetTagTypeNo4k(type) ==
    CASE type = "CLASSIC_1K" -> "MIFARE_CLASSIC_1K"
      [] type = "DESFIRE" -> "MIFARE_DESFIRE"
      [] type = "ULTRALIGHT" -> "MIFARE_ULTRALIGHT"
      [] type = "ULTRALIGHT_C" -> "MIFARE_ULTRALIGHT_C"
      [] OTHER -> "Unknown"

\* Tag::GetTagType: the string the native Tag object reports for its card.
GetTagType(type) ==
    CASE type = "CLASSIC_1K" -> "MIFARE_CLASSIC_1K"
      [] type = "CLASSIC_4K" -> "MIFARE_CLASSIC_4K"
      [] type = "DESFIRE" -> "MIFARE_DESFIRE"
      [] type = "ULTRALIGHT" -> "MIFARE_ULTRALIGHT"
      [] type = "ULTRALIGHT_C" -> "MIFARE_ULTRALIGHT_C"
      [] OTHER -> "Unknown"

\* Tag::New: the Tag object wraps the card handle left in constructorTag.
TagNew(constructorTag) == [tag |-> constructorTag]

\* Tag::Instantiate: stores the handle in constructorTag and constructs.
TagInstantiate(constructorTag) == TagNew(constructorTag)

RECURSIVE ListTagsResultsDedup(_)
ListTagsResultsDedup(t) ==
    IF t = <<>> THEN <<>>
    ELSE LET front == ListTagsResultsDedup(SubSeq(t, 1, Len(t) - 1))
             last == t[Len(t)]
         IN  IF \E k \in 1..Len(front) : front[k].tag.uid = last.uid
             THEN front
             ELSE Append(front, TagInstantiate(last))

\* ListTagsWorker::HandleOKCallback: one Tag object per entry of tags, in
\* the array's order.
ListTagsResults(t) == [i \in 1..Len(t) |-> TagInstantiate(t[i])]

ListTagsSwitchDropsUnknown(cppTag) ==
    LET type == GetTagType(cppTag.tag.type)
    IN  CASE type \in {"MIFARE_CLASSIC_1K", "MIFARE_CLASSIC_4K"} ->
                <<[class |-> "MifareClassicTag", cppObj |-> cppTag]>>
          [] type = "MIFARE_DESFIRE" ->
                <<[class |-> "MifareDesfireTag", cppObj |-> cppTag]>>
          [] type = "MIFARE_ULTRALIGHT" ->
                <<[class |-> "MifareUltralightTag", cppObj |-> cppTag]>>
          [] type = "NTAG_21x" ->
                <<[class |-> "NTag21xTag", cppObj |-> cppTag]>>
          [] OTHER -> <<>>

\* The switch in the callback of Device.listTags(): what it pushes on res
\* for one native Tag object.
ListTagsSwitch(cppTag) ==
    LET type == GetTagType(cppTag.tag.type)
    IN  CASE type \in {"MIFARE_CLASSIC_1K", "MIFARE_CLASSIC_4K"} ->
                <<[class |-> "MifareClassicTag", cppObj |-> cppTag]>>
          [] type = "MIFARE_DESFIRE" ->
                <<[class |-> "MifareDesfireTag", cppObj |-> cppTag]>>
          [] type = "MIFARE_ULTRALIGHT" ->
                <<[class |-> "MifareUltralightTag", cppObj |-> cppTag]>>
          [] type = "NTAG_21x" ->
                <<[class |-> "NTag21xTag", cppObj |-> cppTag]>>
          [] OTHER -> <<[class |-> "Tag", cppObj |-> cppTag]>>

\* The loop of that callback over the list the native side delivered.
RECURSIVE ListTagsLoop(_)
ListTagsLoop(list) ==
    IF list = <<>> THEN <<>>
    ELSE ListTagsSwitch(Head(list)) \o ListTagsLoop(Tail(list))

\* Methods of the JavaScript classes.
TagMethods == {"getType", "getFriendlyName", "getUID"}

ClassMethods(class) ==
    CASE class = "Tag" -> TagMethods
      [] class = "MifareUltralightTag" ->
            TagMethods \cup {"open", "close", "read", "write"}
      [] class = "MifareClassicTag" ->
            TagMethods \cup {"open", "close", "authenticate", "read", "write",
                             "initValue", "readValue", "incrementValue",
                             "decrementValue", "restoreValue", "transferValue"}
      [] class = "MifareDesfireTag" ->
            TagMethods \cup {"open", "close", "authenticateDES",
                             "authenticate3DES", "getApplicationIds",
                             "selectApplication", "getFileIds", "read", "write"}
      [] class = "NTag21xTag" ->
            TagMethods \cup {"open", "close", "read", "fastRead", "write",
                             "getSubType"}

\* ListTagsWorker::HandleOKCallback builds the array of Tag objects and
\* calls the JavaScript callback with it.
ListTagsHandleOK ==
    /\ listPc = "returned"
    /\ results' = ListTagsResults(tags)
    /\ listPc' = "callback"
    /\ UNCHANGED <<tags, res, call, card>>
    /\ UNCHANGED deviceVars

\* The callback of Device.listTags() wraps every Tag object and resolves.
ListTagsCallback ==
    /\ listPc = "callback"
    /\ res' = ListTagsLoop(results)
    /\ listPc' = "resolved"
    /\ UNCHANGED <<tags, results, call, card>>
    /\ UNCHANGED deviceVars

\* The Device is open and holds handle h.
DeviceOpened(h) ==
    /\ ctx = "ok"
    /\ session = TRUE
    /\ obtained = Devices
    /\ device = [d \in Devices |-> h]
    /\ wq = <<>>
    /\ closeRes = [d \in Devices |-> "none"]
    /\ closedAt = [d \in Devices |-> -1]
    /\ staleRead = {}
    /\ crashed = FALSE

OpenDelivered(d) ==
    [NewOp("open", d, 0) EXCEPT !.phase = "delivered", !.ret = "ok",
                                !.promise = "resolved", !.cb = 1]

\* A listTags worker on an open Device has returned from freefare_get_tags
\* with an array of tags; its completion waits for the main loop.
DispatchInit ==
    /\ DeviceOpened(1)
    /\ \E d \in Devices :
          ops = <<OpenDelivered(d),
                  [NewOp("listTags", d, 1) EXCEPT !.phase = "returned",
                                                  !.ret = "tags"]>>
    /\ doneq = <<2>>
    /\ handlers = {}
    /\ tags \in TagArrays
    /\ results = <<>>
    /\ res = <<>>
    /\ listPc = "returned"
    /\ call = [op |-> "none", args |-> <<>>, env |-> <<>>, out |-> <<>>]
    /\ card = NoCard

DispatchNext ==
    \/ ListTagsHandleOK
    \/ ListTagsCallback

DispatchSpec == DispatchInit /\ [][DispatchNext]_vars

\* ----------------------------------------------------- card handler calls
\* Page numbers a caller passes to read() and fastRead().
PageArgs == {-1, 0, 3, 5, 15, 16, 44, 45, 255, 256, 261}

\* Buffer lengths a caller passes to write().
BufLengths == {0, 4, 16}

\* Last page of the NTAG 21x card in the field (NTAG213: pages 0..44).
LastPage == 44

\* info[n]->Uint32Value() stored in a uint8_t.
Uint8(n) == n % 256

\* What the JavaScript callback of a handler method makes of (error, result):
\* reject on an error, resolve with the result otherwise.
HandlerCb(error, result) ==
    IF error # 0
    THEN [promise |-> "Unknown error", error |-> error, result |-> <<>>]
    ELSE [promise |-> "resolved", error |-> 0, result |-> result]

\* Card library: read page `page` of the card; the result is the error value
\* and the pages whose 4 bytes were stored in the caller's buffer.
ntag21x_read4(present, page) ==
    IF present /\ page <= LastPage
    THEN [error |-> 0, data |-> <<page>>]
    ELSE [error |-> -1, data |-> <<>>]

\* Card library: read the pages start..end in one command.
ntag21x_fast_read(present, start, end) ==
    IF present /\ start <= end /\ end <= LastPage
    THEN [error |-> 0, data |-> [k \in 1..(end - start + 1) |-> start + k - 1]]
    ELSE [error |-> -1, data |-> <<>>]

\* ntag21x_readWorker, created by Tag::ntag21x_read4 with info[0].
ntag21x_readWorker(present, page) ==
    LET r == ntag21x_read4(present, Uint8(page))
    IN  [error |-> r.error, data |-> r.data, length |-> 4]

\* ntag21x_fastReadWorker, created by Tag::ntag21x_fast_read with info[0]
\* and info[1]: an inverted range is cut down to the page start_page.
ntag21x_fastReadWorker(present, startPage, endPage) ==
    LET start_page == Uint8(startPage)
        end_page == IF start_page > Uint8(endPage)
                    THEN start_page ELSE Uint8(endPage)
        no_pages == end_page - start_page + 1
        r == ntag21x_fast_read(present, start_page, end_page)
    IN  [error |-> r.error, data |-> r.data, length |-> no_pages * 4]

\* ntag21x_connectWorker: the result of ntag21x_connect is the error, the
\* result of ntag21x_get_info is dropped.
ntag21x_connectWorker(connectRc, infoRc) == [error |-> connectRc]

\* Subtypes ntag21x_get_subtype can report.
NtagSubtypes == {"NTAG_UNKNOWN", "NTAG_213", "NTAG_215", "NTAG_216"}

\* ntag21x_getSubTypeWorker: error keeps the 0 the constructor gave it.
ntag21x_getSubTypeWorker(st) ==
    [error |-> 0,
     subtype |-> CASE st = "NTAG_213" -> 213
                   [] st = "NTAG_215" -> 215
                   [] st = "NTAG_216" -> 216
                   [] OTHER -> 0]

\* The native Tag object of an NTAG 21x card exists.
HasNtagCard == \E k \in 1..Len(results) : results[k].tag.type = "NTAG_21x"

\* A MifareUltralightTag handler exists.
HasUltralightHandler == \E k \in 1..Len(res) : res[k].class = "MifareUltralightTag"

\* Tag::ntag21x_read4 and the callback of NTag21xTag.read().
Tag_ntag21x_read4 ==
    /\ HasNtagCard
    /\ \E present \in BOOLEAN, page \in PageArgs :
          LET w == ntag21x_readWorker(present, page)
          IN  call' = [op |-> "ntag21x_read4", args |-> <<page>>,
                       env |-> <<present>>,
                       out |-> HandlerCb(w.error, [data |-> w.data,
                                                  length |-> w.length])]
    /\ UNCHANGED <<tags, results, res, listPc, card>>
    /\ UNCHANGED deviceVars

\* Tag::ntag21x_fast_read and the callback of NTag21xTag.fastRead().
Tag_ntag21x_fast_read ==
    /\ HasNtagCard
    /\ \E present \in BOOLEAN, startPage \in PageArgs, endPage \in PageArgs :
          LET w == ntag21x_fastReadWorker(present, startPage, endPage)
          IN  call' = [op |-> "ntag21x_fast_read",
                       args |-> <<startPage, endPage>>,
                       env |-> <<present>>,
                       out |-> HandlerCb(w.error, [data |-> w.data,
                                                  length |-> w.length])]
    /\ UNCHANGED <<tags, results, res, listPc, card>>
    /\ UNCHANGED deviceVars

\* Tag::ntag21x_connect and the callback of NTag21xTag.open().
Tag_ntag21x_connect ==
    /\ HasNtagCard
    /\ \E connectRc \in NativeErrors, infoRc \in NativeErrors :
          call' = [op |-> "ntag21x_connect", args |-> <<>>,
                   env |-> <<connectRc, infoRc>>,
                   out |-> HandlerCb(ntag21x_connectWorker(connectRc, infoRc).error,
                                     <<>>)]
    /\ UNCHANGED <<tags, results, res, listPc, card>>
    /\ UNCHANGED deviceVars

\* Tag::ntag21x_get_subtype and the callback of NTag21xTag.getSubType().
Tag_ntag21x_get_subtype ==
    /\ HasNtagCard
    /\ \E st \in NtagSubtypes :
          LET w == ntag21x_getSubTypeWorker(st)
          IN  call' = [op |-> "ntag21x_get_subtype", args |-> <<>>,
                       env |-> <<st>>,
                       out |-> HandlerCb(w.error, w.subtype)]
    /\ UNCHANGED <<tags, results, res, listPc, card>>
    /\ UNCHANGED deviceVars

\* freefare_get_tag_friendly_name: the name the card library keeps for the
\* type of the card.
freefare_get_tag_friendly_name(tag) == <<"friendly name", tag.type>>

\* freefare_get_tag_uid: the UID in the target information the card handle
\* was created with.
freefare_get_tag_uid(tag) == tag.uid

\* Tag::GetTagType, called by Tag.getType(): reads the type in the card
\* handle and returns its name.
Tag_GetTagType ==
    /\ \E k \in 1..Len(results) :
          call' = [op |-> "getTagType", args |-> <<k>>, env |-> <<>>,
                   out |-> GetTagType(results[k].tag.type)]
    /\ UNCHANGED <<tags, results, res, listPc, card>>
    /\ UNCHANGED deviceVars

\* Tag::GetTagFriendlyName, called by Tag.getFriendlyName().
Tag_GetTagFriendlyName ==
    /\ \E k \in 1..Len(results) :
          call' = [op |-> "getTagFriendlyName", args |-> <<k>>, env |-> <<>>,
                   out |-> freefare_get_tag_friendly_name(results[k].tag)]
    /\ UNCHANGED <<tags, results, res, listPc, card>>
    /\ UNCHANGED deviceVars

Tag_GetTagUIDQueued ==
    /\ Len(ops) < MaxOps
    /\ \E k \in 1..Len(results), d \in Devices :
          /\ call' = [op |-> "getTagUID", args |-> <<k>>, env |-> <<>>,
                      out |-> "submitted"]
          /\ AsyncQueueWorker(NewOp("getTagUID", d, k))
    /\ UNCHANGED <<tags, results, res, listPc, card>>
    /\ UNCHANGED <<ctx, session, obtained, device, doneq, handlers,
                   closeRes, closedAt, staleRead, crashed>>

\* Tag::GetTagUID, called by Tag.getUID(): the string is built from the card
\* handle and returned at once; no worker is made.
Tag_GetTagUID ==
    /\ \E k \in 1..Len(results) :
          call' = [op |-> "getTagUID", args |-> <<k>>, env |-> <<>>,
                   out |-> freefare_get_tag_uid(results[k].tag)]
    /\ UNCHANGED <<tags, results, res, listPc, card>>
    /\ UNCHANGED deviceVars

\* assert(page < 16) of MifareUltralightTag.read() and write().
UltralightPageAssert(page) == page < 16

\* MifareUltralightTag.read(page): the assertion, then the native call.
MifareUltralightTag_read ==
    /\ HasUltralightHandler
    /\ "mifareUltralight_read" \in TagPrototype
    /\ \E page \in PageArgs :
          call' = [op |-> "MifareUltralightTag.read", args |-> <<page>>,
                   env |-> <<>>,
                   out |-> IF UltralightPageAssert(page)
                           THEN "submitted" ELSE "AssertionError"]
    /\ UNCHANGED <<tags, results, res, listPc, card>>
    /\ UNCHANGED deviceVars

\* MifareUltralightTag.write(page, buf): both assertions, then the native call.
MifareUltralightTag_write ==
    /\ HasUltralightHandler
    /\ "mifareUltralight_write" \in TagPrototype
    /\ \E page \in PageArgs, length \in BufLengths :
          call' = [op |-> "MifareUltralightTag.write",
                   args |-> <<page, length>>, env |-> <<>>,
                   out |-> IF UltralightPageAssert(page) /\ length = 4
                           THEN "submitted" ELSE "AssertionError"]
    /\ UNCHANGED <<tags, results, res, listPc, card>>
    /\ UNCHANGED deviceVars

\* ------------------------------------------------------ error translation
\* Largest magnitude of the error values tried on the translation.
MaxNativeCode == 95

NativeCodes == (0 - MaxNativeCode)..MaxNativeCode

\* Error values of the reader driver (nfc.h).
NFC_EIO == -1

NFC_EINVARG == -2

NFC_EDEVNOTSUPP == -3

NFC_ENOTSUCHDEV == -4

NFC_EOVFLOW == -5

NFC_ETIMEOUT == -6

NFC_EOPABORTED == -7

NFC_ENOTIMPL == -8

NFC_ETGRELEASED == -10

NFC_ERFTRANS == -20

NFC_EMFCAUTHFAIL == -30

NFC_ESOFT == -80

NFC_ECHIP == -90

LIBNFC_ERROR_TO_NFF_CopyPaste(error) ==
    IF error = NFC_EIO THEN NFF_ERROR_LIBNFC_EIO
    ELSE IF error = NFC_EINVARG THEN NFF_ERROR_LIBNFC_EINVARG
    ELSE IF error = NFC_EDEVNOTSUPP THEN NFF_ERROR_LIBNFC_EDEVNOTSUPP
    ELSE IF error = NFC_ENOTSUCHDEV THEN NFF_ERROR_LIBNFC_ENOTSUCHDEV
    ELSE IF error = NFC_EOVFLOW THEN NFF_ERROR_LIBNFC_EOVFLOW
    ELSE IF error = NFC_ETIMEOUT THEN NFF_ERROR_LIBNFC_ETIMEOUT
    ELSE IF error = NFC_EOPABORTED THEN NFF_ERROR_LIBNFC_EOPABORTED
    ELSE IF error = NFC_ENOTIMPL THEN NFF_ERROR_LIBNFC_ENOTIMPL
    ELSE IF error = NFC_ETGRELEASED THEN NFF_ERROR_LIBNFC_ETGRELEASED
    ELSE IF error = NFC_ERFTRANS THEN NFF_ERROR_LIBNFC_ERFTRANS
    ELSE IF error = NFC_EMFCAUTHFAIL THEN NFF_ERROR_LIBNFC_EMFCAUTHFAIL
    ELSE IF error = NFC_ESOFT THEN NFF_ERROR_LIBNFC_ESOFT
    ELSE IF error = NFC_ECHIP THEN NFF_ERROR_LIBNFC_ESOFT
    ELSE NFF_ERROR_LIBNFC_UNKNOWN

\* The macro LIBNFC_ERROR_TO_NFF: a chain of conditionals, first match wins.
LIBNFC_ERROR_TO_NFF(error) ==
    IF error = NFC_EIO THEN NFF_ERROR_LIBNFC_EIO
    ELSE IF error = NFC_EINVARG THEN NFF_ERROR_LIBNFC_EINVARG
    ELSE IF error = NFC_EDEVNOTSUPP THEN NFF_ERROR_LIBNFC_EDEVNOTSUPP
    ELSE IF error = NFC_ENOTSUCHDEV THEN NFF_ERROR_LIBNFC_ENOTSUCHDEV
    ELSE IF error = NFC_EOVFLOW THEN NFF_ERROR_LIBNFC_EOVFLOW
    ELSE IF error = NFC_ETIMEOUT THEN NFF_ERROR_LIBNFC_ETIMEOUT
    ELSE IF error = NFC_EOPABORTED THEN NFF_ERROR_LIBNFC_EOPABORTED
    ELSE IF error = NFC_ENOTIMPL THEN NFF_ERROR_LIBNFC_ENOTIMPL
    ELSE IF error = NFC_ETGRELEASED THEN NFF_ERROR_LIBNFC_ETGRELEASED
    ELSE IF error = NFC_ERFTRANS THEN NFF_ERROR_LIBNFC_ERFTRANS
    ELSE IF error = NFC_EMFCAUTHFAIL THEN NFF_ERROR_LIBNFC_EMFCAUTHFAIL
    ELSE IF error = NFC_ESOFT THEN NFF_ERROR_LIBNFC_ESOFT
    ELSE IF error = NFC_ECHIP THEN NFF_ERROR_LIBNFC_ECHIP
    ELSE NFF_ERROR_LIBNFC_UNKNOWN

\* The macro applied to an error value.
ErrorTranslation ==
    /\ \E error \in NativeCodes :
          call' = [op |-> "LIBNFC_ERROR_TO_NFF", args |-> <<error>>,
                   env |-> <<>>, out |-> LIBNFC_ERROR_TO_NFF(error)]
    /\ UNCHANGED <<tags, results, res, listPc, card>>
    /\ UNCHANGED deviceVars

\* listTags() on an open Device has resolved with the handlers of a MIFARE
\* Ultralight and an NTAG 21x card; no handler method was called yet.
HandlerInit ==
    /\ DeviceOpened(1)
    /\ \E d \in Devices :
          ops = <<OpenDelivered(d),
                  [NewOp("listTags", d, 1) EXCEPT !.phase = "delivered",
                                                  !.ret = "tags",
                                                  !.promise = "resolved",
                                                  !.cb = 1]>>
    /\ doneq = <<>>
    /\ handlers = Devices
    /\ tags = <<[h |-> 1, type |-> "ULTRALIGHT", uid |-> "04a1"],
                [h |-> 2, type |-> "NTAG_21x", uid |-> "04b2"]>>
    /\ results = ListTagsResults(tags)
    /\ res = ListTagsLoop(results)
    /\ listPc = "resolved"
    /\ call = [op |-> "none", args |-> <<>>, env |-> <<>>, out |-> <<>>]
    /\ card = NoCard

HandlerNext ==
    \/ Tag_ntag21x_read4
    \/ Tag_ntag21x_fast_read
    \/ Tag_ntag21x_connect
    \/ Tag_ntag21x_get_subtype
    \/ MifareUltralightTag_read
    \/ MifareUltralightTag_write
    \/ ErrorTranslation
    \/ Tag_GetTagType
    \/ Tag_GetTagFriendlyName
    \/ Tag_GetTagUID

HandlerSpec == HandlerInit /\ [][HandlerNext]_vars

\* ------------------------------------------- MIFARE Classic: value blocks
\* Blocks the caller addresses: 1 and 2 lie in sector 0, 5 in sector 1.
Blocks == {1, 2, 5}

\* Largest value a value block holds in the model.
MaxValue == 2

Values == 0..MaxValue

\* Amounts passed to incrementValue and decrementValue.
Amounts == {1, 2}

\* Blocks of one sector of a MIFARE Classic 1k card.
BlocksPerSector == 4

SectorOf(block) == block \div BlocksPerSector

\* Error of a block operation whose sector the card was not authenticated
\* for.
AuthRequired == 120

\* The card accepts an operation on a block only in the session of that
\* block's sector.
Authorised(c, block) == c.auth = SectorOf(block)

\* Native methods of the MIFARE Classic handler and the card behind them.
\* Each gives the error for the callback, the result and the card afterwards.
mifareClassic_authenticate(c, block, keyOk) ==
    IF keyOk
    THEN [error |-> 0, result |-> <<>>,
          card |-> [c EXCEPT !.auth = SectorOf(block)]]
    ELSE [error |-> NFC_EMFCAUTHFAIL, result |-> <<>>,
          card |-> [c EXCEPT !.auth = -1]]

mifareClassic_read(c, block) ==
    IF Authorised(c, block)
    THEN [error |-> 0, result |-> <<"data", block>>, card |-> c]
    ELSE [error |-> AuthRequired, result |-> <<>>, card |-> c]

mifareClassic_write(c, block) ==
    IF Authorised(c, block)
    THEN [error |-> 0, result |-> <<>>, card |-> c]
    ELSE [error |-> AuthRequired, result |-> <<>>, card |-> c]

mifareClassic_initValue(c, block, value) ==
    IF Authorised(c, block)
    THEN [error |-> 0, result |-> <<>>,
          card |-> [c EXCEPT !.value[block] = value]]
    ELSE [error |-> AuthRequired, result |-> <<>>, card |-> c]

mifareClassic_readValue(c, block) ==
    IF Authorised(c, block)
    THEN [error |-> 0, result |-> [value |-> c.value[block], adr |-> 0],
          card |-> c]
    ELSE [error |-> AuthRequired, result |-> <<>>, card |-> c]

\* increment, decrement and restore stage a value in the card's register.
mifareClassic_increment(c, block, amount) ==
    IF Authorised(c, block)
    THEN [error |-> 0, result |-> <<>>,
          card |-> [c EXCEPT !.reg = c.value[block] + amount]]
    ELSE [error |-> AuthRequired, result |-> <<>>, card |-> c]

mifareClassic_decrement(c, block, amount) ==
    IF Authorised(c, block)
    THEN [error |-> 0, result |-> <<>>,
          card |-> [c EXCEPT !.reg = c.value[block] - amount]]
    ELSE [error |-> AuthRequired, result |-> <<>>, card |-> c]

mifareClassic_restore(c, block) ==
    IF Authorised(c, block)
    THEN [error |-> 0, result |-> <<>>,
          card |-> [c EXCEPT !.reg = c.value[block]]]
    ELSE [error |-> AuthRequired, result |-> <<>>, card |-> c]

\* transfer commits the register to the block; with nothing staged the card
\* rejects the command.
mifareClassic_transfer(c, block) ==
    IF ~Authorised(c, block)
    THEN [error |-> AuthRequired, result |-> <<>>, card |-> c]
    ELSE IF c.reg \notin Values
    THEN [error |-> NFC_EIO, result |-> <<>>, card |-> c]
    ELSE [error |-> 0, result |-> <<>>,
          card |-> [c EXCEPT !.value[block] = c.reg]]

\* Progress of the sequence readValue, incrementValue, transferValue on one
\* block, each successful and with no other call in between:
\* <<block, value read>>, then <<block, value, amount>>, then
\* <<block, value, amount, 1>>; <<>> when no such sequence is under way.
RunAfter(run, op, args, w) ==
    IF w.error # 0 THEN <<>>
    ELSE IF op = "MifareClassicTag.readValue"
         THEN <<args[1], w.result.value>>
    ELSE IF /\ op = "MifareClassicTag.incrementValue"
            /\ Len(run) = 2 /\ run[1] = args[1]
         THEN <<run[1], run[2], args[2]>>
    ELSE IF /\ op = "MifareClassicTag.transferValue"
            /\ Len(run) = 3 /\ run[1] = args[1]
         THEN <<run[1], run[2], run[3], 1>>
    ELSE <<>>

\* A MifareClassicTag handler exists.
HasClassicHandler == \E k \in 1..Len(res) : res[k].class = "MifareClassicTag"

\* One call of a MifareClassicTag method, with w what the native method
\* gave and out what the method's callback made of it.  env keeps the sector
\* session and the progress of the value sequence before the call.
ClassicCall(op, args, w, out) ==
    /\ HasClassicHandler
    /\ call' = [op |-> op, args |-> args, env |-> <<card.auth, card.run>>,
                out |-> out]
    /\ card' = [w.card EXCEPT !.run = RunAfter(card.run, op, args, w)]
    /\ UNCHANGED <<tags, results, res, listPc>>
    /\ UNCHANGED deviceVars

\* MifareClassicTag.authenticate(block, key, keyType).
MifareClassicTag_authenticate ==
    /\ "mifareClassic_authenticate" \in TagPrototype
    /\ \E block \in Blocks, keyOk \in BOOLEAN :
          LET w == mifareClassic_authenticate(card, block, keyOk)
          IN  ClassicCall("MifareClassicTag.authenticate", <<block>>, w,
                          HandlerCb(w.error, w.result))

MifareClassicTag_readIgnoresError ==
    /\ "mifareClassic_read" \in TagPrototype
    /\ \E block \in Blocks :
          LET w == mifareClassic_read(card, block)
          IN  ClassicCall("MifareClassicTag.read", <<block>>, w,
                          HandlerCb(0, w.result))

\* MifareClassicTag.read(block): rejects when the native method reports an
\* error, resolves with the data otherwise.
MifareClassicTag_read ==
    /\ "mifareClassic_read" \in TagPrototype
    /\ \E block \in Blocks :
          LET w == mifareClassic_read(card, block)
          IN  ClassicCall("MifareClassicTag.read", <<block>>, w,
                          HandlerCb(w.error, w.result))

\* MifareClassicTag.write(block, data).
MifareClassicTag_write ==
    /\ "mifareClassic_write" \in TagPrototype
    /\ \E block \in Blocks :
          LET w == mifareClassic_write(card, block)
          IN  ClassicCall("MifareClassicTag.write", <<block>>, w,
                          HandlerCb(w.error, w.result))

\* MifareClassicTag.initValue(block, value, adr).
MifareClassicTag_initValue ==
    /\ "mifareClassic_initValue" \in TagPrototype
    /\ \E block \in Blocks, value \in Values :
          LET w == mifareClassic_initValue(card, block, value)
          IN  ClassicCall("MifareClassicTag.initValue", <<block, value>>, w,
                          HandlerCb(w.error, w.result))

\* MifareClassicTag.readValue(block): resolves with {value, adr}.
MifareClassicTag_readValue ==
    /\ "mifareClassic_readValue" \in TagPrototype
    /\ \E block \in Blocks :
          LET w == mifareClassic_readValue(card, block)
          IN  ClassicCall("MifareClassicTag.readValue", <<block>>, w,
                          HandlerCb(w.error, w.result))

MifareClassicTag_incrementValueDropsAmount ==
    /\ "mifareClassic_increment" \in TagPrototype
    /\ \E block \in Blocks, amount \in Amounts :
          /\ card.value[block] + amount <= MaxValue
          /\ LET w == mifareClassic_increment(card, block, 0)
             IN  ClassicCall("MifareClassicTag.incrementValue",
                             <<block, amount>>, w,
                             HandlerCb(w.error, w.result))

\* MifareClassicTag.incrementValue(block, amount): passes both arguments on
\* (amounts that keep the value within the model's range).
MifareClassicTag_incrementValue ==
    /\ "mifareClassic_increment" \in TagPrototype
    /\ \E block \in Blocks, amount \in Amounts :
          /\ card.value[block] + amount <= MaxValue
          /\ LET w == mifareClassic_increment(card, block, amount)
             IN  ClassicCall("MifareClassicTag.incrementValue",
                             <<block, amount>>, w,
                             HandlerCb(w.error, w.result))

\* MifareClassicTag.decrementValue(block, amount).
MifareClassicTag_decrementValue ==
    /\ "mifareClassic_decrement" \in TagPrototype
    /\ \E block \in Blocks, amount \in Amounts :
          /\ card.value[block] - amount >= 0
          /\ LET w == mifareClassic_decrement(card, block, amount)
             IN  ClassicCall("MifareClassicTag.decrementValue",
                             <<block, amount>>, w,
                             HandlerCb(w.error, w.result))

\* MifareClassicTag.restoreValue(block).
MifareClassicTag_restoreValue ==
    /\ "mifareClassic_restore" \in TagPrototype
    /\ \E block \in Blocks :
          LET w == mifareClassic_restore(card, block)
          IN  ClassicCall("MifareClassicTag.restoreValue", <<block>>, w,
                          HandlerCb(w.error, w.result))

\* MifareClassicTag.transferValue(block).
MifareClassicTag_transferValue ==
    /\ "mifareClassic_transfer" \in TagPrototype
    /\ \E block \in Blocks :
          LET w == mifareClassic_transfer(card, block)
          IN  ClassicCall("MifareClassicTag.transferValue", <<block>>, w,
                          HandlerCb(w.error, w.result))

\* listTags() on an open Device has resolved with the handler of a MIFARE
\* Classic 1k card whose blocks hold the value 0; the card is in no sector
\* session and has nothing staged.
ClassicInit ==
    /\ DeviceOpened(1)
    /\ \E d \in Devices :
          ops = <<OpenDelivered(d),
                  [NewOp("listTags", d, 1) EXCEPT !.phase = "delivered",
                                                  !.ret = "tags",
                                                  !.promise = "resolved",
                                                  !.cb = 1]>>
    /\ doneq = <<>>
    /\ handlers = Devices
    /\ tags = <<[h |-> 1, type |-> "CLASSIC_1K", uid |-> "04a1"]>>
    /\ results = ListTagsResults(tags)
    /\ res = ListTagsLoop(results)
    /\ listPc = "resolved"
    /\ call = [op |-> "none", args |-> <<>>, env |-> <<>>, out |-> <<>>]
    /\ card = [auth |-> -1, value |-> [b \in Blocks |-> 0], reg |-> -1,
               run |-> <<>>]

ClassicNext ==
    \/ MifareClassicTag_authenticate
    \/ MifareClassicTag_read
    \/ MifareClassicTag_write
    \/ MifareClassicTag_initValue
    \/ MifareClassicTag_readValue
    \/ MifareClassicTag_incrementValue
    \/ MifareClassicTag_decrementValue
    \/ MifareClassicTag_restoreValue
    \/ MifareClassicTag_transferValue

ClassicSpec == ClassicInit /\ [][ClassicNext]_vars

\* ------------------------------------------------------------ two readers
\* Devices of a system with two readers attached.
Connections == {"d1", "d2"}

\* new Freefare() succeeded and listDevices() returned one Device for each
\* of the two readers; nothing was called on them yet.
TwoDeviceInit ==
    /\ CardIdle
    /\ ctx = "ok"
    /\ session = TRUE
    /\ obtained = Connections
    /\ device = [d \in Connections |-> -1]
    /\ ops = <<>>
    /\ wq = <<>>
    /\ doneq = <<>>
    /\ handlers = {}
    /\ closeRes = [d \in Connections |-> "none"]
    /\ closedAt = [d \in Connections |-> -1]
    /\ staleRead = {}
    /\ crashed = FALSE

\* open() and listTags() on either Device, over the one thread pool and the
\* one main loop of the process.
TwoDeviceNext ==
    \/ \E d \in Connections : DeviceOpen(d)
    \/ \E d \in Connections : DeviceListTags(d)
    \/ \E i \in 1..MaxOps : WorkerStart(i)
    \/ \E i \in 1..MaxOps : WorkerReturn(i)
    \/ \E i \in 1..MaxOps : Deliver(i)

TwoDeviceSpec == TwoDeviceInit /\ [][TwoDeviceNext]_vars

\* ------------------------------------------------------------------ claims
\* Worker i was submitted before the last close() on its device.
BeforeClose(i) == closedAt[ops[i].dev] >= i

\* Worker i was submitted after a close() on its device had returned.
AfterClose(i) == closedAt[ops[i].dev] >= 0 /\ i > closedAt[ops[i].dev]

\* C1: at most one command is executing against a given reader connection at
\* any time.
C1_SingleFlight ==
    \A d \in Devices : Cardinality(ExecutingOn(d)) <= 1

\* C2: the completions of the operations submitted on one connection are
\* delivered in the order the operations were submitted: when a completion
\* is delivered, every earlier operation on that connection has completed.
C2_CompletionsFifo ==
    [][\A i \in OpIds :
          (ops[i].phase # "delivered" /\ ops'[i].phase = "delivered")
              => \A j \in 1..(i - 1) :
                    ops[j].dev = ops[i].dev => ops[j].phase = "delivered"]_vars

\* C3: every operation whose native call returned has its completion
\* delivered exactly once and its promise settled; it is never left without
\* a completion.
C3_ExactlyOneCompletion ==
    \A i \in OpIds :
        /\ ops[i].phase = "returned" => ~crashed
        /\ ops[i].phase = "delivered" =>
               (ops[i].cb = 1 /\ ops[i].promise # "pending")

\* C4: an operation still queued when its connection is closed never starts
\* its native call; it completes with ConnectionClosed.
C4_QueuedFailOnClose ==
    [][\A i \in OpIds :
          (BeforeClose(i) /\ ops[i].phase = "queued")
              => \/ ops'[i].phase = "queued"
                 \/ (ops'[i].phase = "delivered"
                        /\ ops'[i].promise = "ConnectionClosed")]_vars

\* C5: once close() has returned, no operation on a card handler of that
\* connection reaches the card library; it fails with HandleInvalidated.
C5_HandleInvalidated ==
    /\ staleRead = {}
    /\ \A i \in OpIds :
          (ops[i].kind \in CardKinds /\ AfterClose(i))
              => \/ ops[i].phase = "queued"
                 \/ ops[i].promise = "HandleInvalidated"

\* C6: every close() succeeds, on an open and on a closed connection alike.
C6_CloseSucceeds ==
    \A d \in Devices : closeRes[d] \in {"none", "resolved"}

C8_AbortNotHeldBack ==
    [][\A d \in Devices :
          (/\ Len(ops') = Len(ops) + 1
           /\ ops'[Len(ops')].kind = "abort"
           /\ ops'[Len(ops')].dev = d
           /\ ExecutingOn(d) # {})
              => Len(wq') <= PoolSize - Cardinality(Executing)]_vars

\* C9: open() completes with the device-open failure exactly when nfc_open
\* returned no handle to that call.
C9_OpenFailedIffNoHandle ==
    \A i \in OpIds :
        (ops[i].kind = "open" /\ ops[i].phase = "delivered")
            => ((ops[i].promise = "LibNFC failed to open the device")
                    <=> (ops[i].ret = "NULL"))

\* C10: a Freefare object, a Device and any worker exist only after the
\* library context was initialised successfully.
C10_NoOpenBeforeInit ==
    ctx # "ok" => (~session /\ obtained = {} /\ ops = <<>>)

C10_Witness ==
    ctx = "failed" /\ ~session /\ obtained = {} /\ ops = <<>>

\* C11: listTags and abort never issue their native call for a Device that
\* holds no handle from a successful open(): a worker that has started its
\* native call was given a handle nfc_open returned.
C11_NoNativeCallUnopened ==
    \A i \in OpIds :
        (ops[i].kind \in {"listTags", "abort"} /\ ops[i].phase # "queued")
            => ValidHandle(ops[i].arg)

\* C19: the error a Device operation delivers to its caller is 0 or one of
\* the binding's own error values, never a value a native call returned
\* (stated for the operations run on a handle nfc_open returned).
C19_OnlyTranslatedErrors ==
    \A i \in OpIds :
        (/\ ops[i].kind \in {"open", "listTags", "abort"}
         /\ ops[i].kind = "open" \/ ValidHandle(ops[i].arg)
         /\ ops[i].phase = "delivered")
            => CallbackError(ops[i]) \in ({0} \cup NffErrors)

\* Card family of the specification for a card type of the card library.
Family(type) ==
    CASE type = "CLASSIC_1K" -> "classic-1k"
      [] type = "CLASSIC_4K" -> "classic-4k"
      [] type = "DESFIRE" -> "file-oriented"
      [] type = "ULTRALIGHT" -> "simple-memory"
      [] type = "NTAG_21x" -> "extended-memory"
      [] OTHER -> "unknown"

\* Positions in res of the handlers that wrap the card handle tags[i].
HandlersOf(i) == {k \in 1..Len(res) : res[k].cppObj.tag.h = tags[i].h}

\* C12: listTags gives every enumerated card exactly one handler, and the
\* handler of a classic-1k or classic-4k card is a MifareClassicTag, of a
\* file-oriented card a MifareDesfireTag, of a simple-memory card a
\* MifareUltralightTag.
C12_FamilyDispatch ==
    listPc = "resolved" =>
        \A i \in 1..Len(tags) :
            /\ Cardinality(HandlersOf(i)) = 1
            /\ \A k \in HandlersOf(i) :
                  /\ Family(tags[i].type) \in {"classic-1k", "classic-4k"}
                        => res[k].class = "MifareClassicTag"
                  /\ Family(tags[i].type) = "file-oriented"
                        => res[k].class = "MifareDesfireTag"
                  /\ Family(tags[i].type) = "simple-memory"
                        => res[k].class = "MifareUltralightTag"

C12_Witness ==
    /\ listPc = "resolved"
    /\ \E i, j \in 1..Len(tags) :
          /\ tags[i].type = "CLASSIC_4K" /\ tags[j].type = "ULTRALIGHT"
          /\ \E k \in HandlersOf(i) : res[k].class = "MifareClassicTag"
          /\ \E k \in HandlersOf(j) : res[k].class = "MifareUltralightTag"

\* C13: the handler listTags gives an extended-memory card is an NTag21xTag.
C13_ExtendedDispatch ==
    listPc = "resolved" =>
        \A i \in 1..Len(tags) :
            Family(tags[i].type) = "extended-memory"
                => \E k \in HandlersOf(i) : res[k].class = "NTag21xTag"

\* C14: a card of unknown family gets a plain Tag handler, which has the
\* methods getType, getFriendlyName and getUID only, and listTags resolves
\* with a handler for every card of the enumeration all the same.
C14_UnknownToGeneric ==
    listPc = "resolved" =>
        \A i \in 1..Len(tags) :
            /\ HandlersOf(i) # {}
            /\ Family(tags[i].type) = "unknown" =>
                  \A k \in HandlersOf(i) :
                      /\ res[k].class = "Tag"
                      /\ ClassMethods(res[k].class)
                            = {"getType", "getFriendlyName", "getUID"}

C14_Witness ==
    /\ listPc = "resolved"
    /\ \E i, j \in 1..Len(tags) :
          /\ Family(tags[i].type) = "unknown"
          /\ Family(tags[j].type) = "simple-memory"
          /\ \E k \in HandlersOf(i) : res[k].class = "Tag"
          /\ \E k \in HandlersOf(j) : res[k].class = "MifareUltralightTag"

\* C15: listTags resolves with one handler per card handle of the array the
\* library returned, in the array's order, handler i wrapping handle i; two
\* handles with the same UID both keep their handler.
C15_OneHandlerPerHandle ==
    /\ listPc = "callback" =>
          /\ Len(results) = Len(tags)
          /\ \A i \in 1..Len(tags) : results[i].tag = tags[i]
    /\ listPc = "resolved" =>
          /\ Len(res) = Len(tags)
          /\ \A i \in 1..Len(tags) : res[i].cppObj.tag = tags[i]

C15_Witness ==
    /\ listPc = "resolved"
    /\ Len(tags) = 2
    /\ tags[1].uid = tags[2].uid
    /\ Len(res) = 2
    /\ res[1].cppObj.tag.h = 1 /\ res[2].cppObj.tag.h = 2

\* C16: for start > end (both page numbers from 0 up), fastRead(start, end)
\* completes exactly as read(start) completes on the same card: the same
\* error, or the same 4 bytes of the one page.
C16_InvertedRangeAsRead ==
    (/\ call.op = "ntag21x_fast_read"
     /\ call.args[1] > call.args[2]
     /\ call.args[2] >= 0)
        => LET w == ntag21x_readWorker(call.env[1], call.args[1])
           IN  call.out = HandlerCb(w.error, [data |-> w.data,
                                              length |-> w.length])

\* C17: read(page) and write(page, data) of the MifareUltralightTag fail
\* before the native method is called for every page outside 0..15,
\* negative pages included.
C17_OutOfRangeFailsFast ==
    (/\ call.op \in {"MifareUltralightTag.read", "MifareUltralightTag.write"}
     /\ call.args[1] \notin 0..15)
        => call.out = "AssertionError"

\* Taxonomy member an error value of the binding stands for.
TaxonomyMember(nff) ==
    CASE nff = NFF_ERROR_LIBNFC_EIO -> "IOError"
      [] nff = NFF_ERROR_LIBNFC_EINVARG -> "InvalidArgument"
      [] nff = NFF_ERROR_LIBNFC_EDEVNOTSUPP -> "DeviceNotSupported"
      [] nff = NFF_ERROR_LIBNFC_ENOTSUCHDEV -> "NoSuchDevice"
      [] nff = NFF_ERROR_LIBNFC_EOVFLOW -> "Overflow"
      [] nff = NFF_ERROR_LIBNFC_ETIMEOUT -> "Timeout"
      [] nff = NFF_ERROR_LIBNFC_EOPABORTED -> "OperationAborted"
      [] nff = NFF_ERROR_LIBNFC_ENOTIMPL -> "NotImplemented"
      [] nff = NFF_ERROR_LIBNFC_ETGRELEASED -> "TagReleased"
      [] nff = NFF_ERROR_LIBNFC_ERFTRANS -> "RFTransmissionError"
      [] nff = NFF_ERROR_LIBNFC_EMFCAUTHFAIL -> "AuthenticationFailed"
      [] nff = NFF_ERROR_LIBNFC_ESOFT -> "SoftError"
      [] nff = NFF_ERROR_LIBNFC_ECHIP -> "ChipError"
      [] nff = NFF_ERROR_LIBNFC_UNKNOWN -> "Unknown"
      [] OTHER -> "none"

\* Taxonomy member the reader driver's documentation gives an error value.
DriverErrorMember(error) ==
    CASE error = -1 -> "IOError"
      [] error = -2 -> "InvalidArgument"
      [] error = -3 -> "DeviceNotSupported"
      [] error = -4 -> "NoSuchDevice"
      [] error = -5 -> "Overflow"
      [] error = -6 -> "Timeout"
      [] error = -7 -> "OperationAborted"
      [] error = -8 -> "NotImplemented"
      [] error = -10 -> "TagReleased"
      [] error = -20 -> "RFTransmissionError"
      [] error = -30 -> "AuthenticationFailed"
      [] error = -80 -> "SoftError"
      [] error = -90 -> "ChipError"
      [] OTHER -> "Unknown"

\* C18: the translation gives every error value a taxonomy member: each of
\* the 13 driver error values its own member, every other value Unknown.
C18_TranslationTotal ==
    call.op = "LIBNFC_ERROR_TO_NFF" =>
        /\ TaxonomyMember(call.out) = DriverErrorMember(call.args[1])
        /\ \A other \in NativeCodes :
              (other # call.args[1] /\ LIBNFC_ERROR_TO_NFF(other) = call.out)
                  => call.out = NFF_ERROR_LIBNFC_UNKNOWN

C18_Witness ==
    /\ call.op = "LIBNFC_ERROR_TO_NFF"
    /\ call.args = <<NFC_ECHIP>>
    /\ call.out = NFF_ERROR_LIBNFC_ECHIP

\* C20: a handler operation one of whose native calls failed completes with
\* an error: open() when ntag21x_connect or ntag21x_get_info failed,
\* getSubType() when the subtype could not be determined.
C20_NativeFailureReported ==
    /\ (call.op = "ntag21x_connect"
          /\ (call.env[1] # 0 \/ call.env[2] # 0))
            => call.out.error # 0
    /\ (call.op = "ntag21x_get_subtype" /\ call.env[1] = "NTAG_UNKNOWN")
            => call.out.error # 0

\* C21: a listTags whose enumeration failed (freefare_get_tags returned no
\* tag list for the handle nfc_open gave) does not end the process and has
\* its one completion delivered with an error: its promise is rejected.
C21_EnumerationFailureReported ==
    \A i \in OpIds :
        (/\ ops[i].kind = "listTags"
         /\ ValidHandle(ops[i].arg)
         /\ ops[i].ret = "NULL")
            => /\ ops[i].phase = "returned" => ~crashed
               /\ ops[i].phase = "delivered" =>
                      (ops[i].cb = 1
                          /\ ops[i].promise \notin {"pending", "resolved"})

\* What a getter answers from the entry of the card in the array the
\* enumeration returned.
DescriptorAtEnumeration(op, t) ==
    CASE op = "getTagType" -> GetTagType(t.type)
      [] op = "getTagFriendlyName" -> <<"friendly name", t.type>>
      [] OTHER -> t.uid

\* C22: getType, getFriendlyName and getUID only read what the enumeration
\* recorded for the card: a call submits no command, changes neither the
\* Device, the work queue, the list of workers nor the handlers, and returns
\* on every call the value of the card's entry at enumeration.
C22_GettersPure ==
    [][(call'.op \in GetterOps /\ call' # call)
          => /\ UNCHANGED deviceVars
             /\ UNCHANGED <<tags, results, res, listPc, card>>
             /\ call'.args[1] \in 1..Len(tags)
             /\ call'.out = DescriptorAtEnumeration(call'.op,
                                                    tags[call'.args[1]])]_vars

C22_Witness ==
    /\ call.op = "getTagUID"
    /\ call.args = <<2>>
    /\ call.out = "04b2"
    /\ wq = <<>>
    /\ Len(ops) = 2

NativeCallsOnPool ==
    \A i \in 1..Len(ops') :
        /\ i > Len(ops) =>
              (ops'[i].phase = "queued" /\ ops'[i].ret = "none")
        /\ (i <= Len(ops) /\ ops[i].ret = "none" /\ ops'[i].ret # "none") =>
              (ops[i].phase = "executing"
                  /\ Cardinality(Executing) <= PoolSize)

\* C24 as stated: every call into the reader driver or the card library is
\* made by a background thread, never by the thread of the caller.
C24_NoLibraryCallOnCallerThread ==
    [][NativeCallsOnPool /\ call'.op \notin GetterOps]_vars

\* C24, amended: every call of open, listTags, abort and of the handler
\* operations that complete through a callback is made by a background
\* thread; the caller's thread makes none of them.
C24_HardwareCallsOnPool ==
    [][NativeCallsOnPool]_vars

C24_Witness ==
    /\ call.op \in GetterOps
    /\ \E i, j \in OpIds :
          /\ ops[i].kind = "listTags"
          /\ ops[i].ret = "tags"
          /\ ops[i].phase = "delivered"
          /\ ops[j].kind \in CardKinds
          /\ ops[j].phase = "executing"

\* C26: there is no timeout.  While the native call of an operation has not
\* returned, that operation has no completion, and no operation submitted
\* after it on the same connection starts or completes.
C26_HungCallHoldsQueue ==
    [][\A j \in OpIds :
          (ops[j].phase = "executing" /\ ops'[j].phase = "executing")
              => /\ ops'[j].promise = "pending" /\ ops'[j].cb = 0
                 /\ \A i \in OpIds :
                       (j < i /\ ops[i].dev = ops[j].dev)
                           => ops'[i].phase = ops[i].phase]_vars

\* C29: a listTags or abort submitted after an open() of the same Device
\* (the only open() before it) runs its native call on the handle that
\* open() obtained, whether or not open() had completed at the submission.
C29_UsesHandleOfPendingOpen ==
    \A i, j \in OpIds :
        (/\ i < j
         /\ ops[i].kind = "open"
         /\ ops[i].ret = "ok"
         /\ ops[j].kind \in {"listTags", "abort"}
         /\ ops[j].dev = ops[i].dev
         /\ \A k \in 1..(j - 1) :
               (ops[k].kind = "open" /\ ops[k].dev = ops[i].dev) => k = i
         /\ ops[j].phase \in {"returned", "delivered"})
            => ops[j].arg = i

\* Handles nfc_open has returned for Device d: the model names a handle by
\* the open() that obtained it.
HandlesObtained(d) ==
    {i \in OpIds : ops[i].kind = "open" /\ ops[i].dev = d /\ ops[i].ret = "ok"}

\* Handles of Device d that nfc_close was called on.
HandlesClosed(d) ==
    {ops[i].arg : i \in {k \in OpIds : /\ ops[k].kind = "close"
                                       /\ ops[k].dev = d
                                       /\ ops[k].ret = "ok"}}

\* C30: a Device holds at most one open connection: every handle nfc_open
\* returned for it is the handle the Device holds now or has been closed.
C30_NoHandleLeak ==
    \A d \in Devices :
        /\ HandlesObtained(d) \subseteq ({device[d]} \cup HandlesClosed(d))
        /\ Cardinality(HandlesObtained(d) \ HandlesClosed(d)) <= 1

\* C25: operations on different connections are independent.  An operation
\* that waits while nothing of its own connection is queued or executing is
\* not held up by the operations of other connections: a pool thread is free
\* for it, and no failure on another connection has ended the process.
C25_ConnectionsIndependent ==
    \A i \in OpIds :
        (/\ ops[i].phase = "queued"
         /\ \A j \in OpIds \ {i} :
               ops[j].phase \in {"queued", "executing"}
                   => ops[j].dev # ops[i].dev)
            => (Cardinality(Executing) < PoolSize /\ ~crashed)

\* Methods of MifareClassicTag that read, write or change a block.
ClassicBlockOps ==
    {"MifareClassicTag." \o n :
        n \in {"read", "write", "initValue", "readValue", "incrementValue",
               "decrementValue", "restoreValue", "transferValue"}}

\* C27: a read, write or value operation on a block whose sector the card
\* is not in a session for (no authenticate succeeded, or the last one was
\* for another sector) fails with AuthRequired.
C27_AuthRequiredPerSector ==
    (call.op \in ClassicBlockOps /\ call.env[1] # SectorOf(call.args[1]))
        => (call.out.promise # "resolved" /\ call.out.error = AuthRequired)

C27_Witness ==
    /\ call.op = "MifareClassicTag.readValue"
    /\ call.args = <<5>>
    /\ call.env[1] = SectorOf(1)
    /\ call.out.error = AuthRequired

\* C28: readValue(block) giving v, then incrementValue(block, amount), then
\* transferValue(block), all successful and in direct succession, make the
\* next readValue(block) give v + amount.
C28_IncrementTransferAdds ==
    (/\ call.op = "MifareClassicTag.readValue"
     /\ Len(call.env[2]) = 4
     /\ call.env[2][1] = call.args[1]
     /\ call.env[1] = SectorOf(call.args[1]))
        => /\ call.out.promise = "resolved"
           /\ call.out.result.value = call.env[2][2] + call.env[2][3]

C28_Witness ==
    /\ call.op = "MifareClassicTag.readValue"
    /\ call.args = <<5>>
    /\ call.env[2] = <<5, 1, 1, 1>>
    /\ call.out.promise = "resolved"
    /\ call.out.result.value = 2

\* C31: when the completion of open() hands the device-open error to the
\* callback, the promise is rejected with 'LibNFC failed to open the device'
\* (the reject and the resolve() the callback runs into afterwards change
\* nothing); when it hands over no error, the promise is resolved.
C31_OpenPromiseOutcome ==
    [][\A i \in OpIds :
          (/\ ops[i].kind = "open"
           /\ ops[i].phase # "delivered"
           /\ ops'[i].phase = "delivered")
              => /\ ops'[i].cb = 1
                 /\ CallbackError(ops[i]) = ERROR_OPEN_DEVICE
                       => ops'[i].promise = "LibNFC failed to open the device"
                 /\ CallbackError(ops[i]) = 0
                       => ops'[i].promise = "resolved"]_vars

C31_Witness ==
    \E i, j \in OpIds :
        /\ ops[i].kind = "open" /\ ops[i].phase = "delivered"
        /\ ops[i].promise = "LibNFC failed to open the device"
        /\ ops[j].kind = "open" /\ ops[j].phase = "delivered"
        /\ ops[j].promise = "resolved"

\* C32: for page arguments 0 <= start <= end, whatever their size, a
\* fastRead(start, end) that succeeds returns a buffer of exactly
\* 4 * (end - start + 1) bytes.
C32_FastReadLength ==
    (/\ call.op = "ntag21x_fast_read"
     /\ 0 <= call.args[1]
     /\ call.args[1] <= call.args[2]
     /\ call.out.promise = "resolved")
        => call.out.result.length = 4 * (call.args[2] - call.args[1] + 1)

====
